---- MODULE Spec2Model ----
(***************************************************************************)
(* Model of the website-audit pipeline: the narrative parser and the three *)
(* model requests of src/api/analyze.js, the serverless pipeline and the   *)
(* heuristic analyzer of api/analyze (part_000), the auto-scroll sweep and *)
(* the extractor's bounding boxes, the HTTP handlers of server.js and of   *)
(* the serverless functions (part_000, part_001, part_002), and the        *)
(* location resolver and Locate buttons of the UI (part_005).              *)
(*                                                                         *)
(* A text is a sequence of symbols.  A section label ("Exit Points:") is   *)
(* one symbol; the other symbols are the characters the parser's regular   *)
(* expressions tell apart: line break, blank, bullet marker, digit, dot    *)
(* and plain letters.                                                      *)
(***************************************************************************)
EXTENDS Integers, Sequences, FiniteSets, TLC

VARIABLES
    category,    \* one request: which of the three analyses is running
    outcome,     \* one request: what the model service answered
    parsed,      \* one request: what the analysis function returned
    rstate,      \* one request: Idle, Requested, Parsed or Failed
    content,     \* extracted page content (headings, paragraphs, metadata)
    assets,      \* extracted page assets (images)
    analysis,    \* the AnalysisResult computed for content and assets
    pageAnalysis,\* resolver: the element lists of analysis.mainPage
    locate,      \* resolver: the arguments of the last findElementLocation
    location,    \* resolver: what the last findElementLocation returned
    impl,        \* pipeline: "server" (analyze) or "serverless" (analyzeWebsite)
    apiKey,      \* pipeline: whether process.env.OPENAI_API_KEY is set
    pc,          \* pipeline: the statement the analysis request is at
    browser,     \* pipeline: "none", "open" or "closed"
    reqState,    \* pipeline: state of each model request
    resp,        \* pipeline: what the model service answered to each request
    partial,     \* pipeline: assetsAnalysis, contentAnalysis, visualAnalysis
    issued,      \* pipeline: number of model requests issued
    status,      \* pipeline: running, returning, throwing, returned, thrown
    response,    \* pipeline: what page.goto resolved with: none, ok or notOk
    error,       \* pipeline: the call whose rejection the catch block holds
    page,        \* auto-scroll: the document in the browser (heights, scroll)
    sweep,       \* auto-scroll: the interval timer of autoScroll
    boxes,       \* auto-scroll: the locations the extractor recorded
    request,     \* endpoints: the HTTP request a handler is serving
    reply,       \* endpoints: what the handler sent back
    hstate,      \* endpoints: the statement the handler is at
    calls,       \* endpoints: how often the analysis pipeline was invoked
    pressed,     \* UI: the list entry whose Locate button was pressed
    ui,          \* UI: the highlight state of the App component
    layout,      \* UI: the coordinates of the element locations of the page
    popup        \* UI: the How-to popup state of the App component

requestVars == <<category, outcome, parsed, rstate>>
pageVars == <<content, assets>>
resolverVars == <<pageAnalysis, locate, location>>
pipelineVars == <<impl, apiKey, pc, browser, reqState, resp, partial, issued, status,
                  response, error>>
scrollVars == <<page, sweep, boxes>>
endpointVars == <<request, reply, hstate, calls>>
uiVars == <<pressed, ui, layout, popup>>
vars == <<category, outcome, parsed, rstate, content, assets, analysis,
          pageAnalysis, locate, location,
          impl, apiKey, pc, browser, reqState, resp, partial, issued, status,
          response, error, page, sweep, boxes, request, reply, hstate, calls,
          pressed, ui, layout, popup>>

----------------------------------------------------------------------------
(* Bounds *)

MaxLines == 3
MaxImages == 2
MaxHeadings == 2
MaxParagraphs == 3
MaxElems == 2

----------------------------------------------------------------------------
(* Characters and labels *)

NL == "\n"
SP == " "
Whitespace == {SP, "\t", "\r"}
BulletMarkers == {"-", "*", "(bullet)"}   \* (bullet) stands for U+2022
Digits == {"0", "1", "2", "3", "4", "5", "6", "7", "8", "9"}

Categories == {"visual", "assets", "content"}

\* The labels each analysis looks for, in the order of its sections object.
VisualLabels == <<"Exit Points:", "Design Issues:", "Recommendations:">>
AssetsLabels == <<"Performance Issues:", "Accessibility Issues:", "SEO Issues:",
                  "Best Practices:", "Recommendations:">>
ContentLabels == <<"Content Structure Issues:", "Content Quality Issues:",
                   "SEO Content Issues:", "UX/UI Issues:", "Recommendations:">>

VisualFields == <<"exitPoints", "designIssues", "recommendations">>
AssetsFields == <<"performanceIssues", "accessibilityIssues", "seoIssues",
                  "bestPractices", "recommendations">>
ContentFields == <<"structureIssues", "qualityIssues", "seoIssues",
                   "uxIssues", "recommendations">>

LabelsOf(cat) ==
    CASE cat = "visual" -> VisualLabels
      [] cat = "assets" -> AssetsLabels
      [] cat = "content" -> ContentLabels

FieldsOf(cat) ==
    CASE cat = "visual" -> VisualFields
      [] cat = "assets" -> AssetsFields
      [] cat = "content" -> ContentFields

Range(s) == {s[i] : i \in 1..Len(s)}

----------------------------------------------------------------------------
(* JavaScript string operations used by the parser *)

\* Smallest index >= from at which sym occurs in text, 0 if none.
IndexFrom(text, sym, from) ==
    LET hits == {i \in from..Len(text) : text[i] = sym}
    IN IF hits = {} THEN 0 ELSE CHOOSE i \in hits : \A j \in hits : i <= j

\* text.match(/label(.*?)(?=stop|$)/s): the leftmost label, then the shortest
\* run that is followed by stop or by the end of the text.  stop = "" stands
\* for the last section's /label(.*?)$/s.  null when label does not occur.
RegexMatch(text, label, stop) ==
    LET at == IndexFrom(text, label, 1)
        nxt == IF stop = "" THEN 0 ELSE IndexFrom(text, stop, at + 1)
        last == IF nxt = 0 THEN Len(text) ELSE nxt - 1
    IN IF at = 0
       THEN [isNull |-> TRUE, group |-> <<>>]
       ELSE [isNull |-> FALSE, group |-> SubSeq(text, at + 1, last)]

\* (text.match(re) || [])[1]: undefined when there is no match.
SectionText_noGuard(text, label, stop) ==
    LET m == RegexMatch(text, label, stop)
    IN [threw |-> m.isNull, defined |-> ~m.isNull, text |-> m.group]

SectionText(text, label, stop) ==
    LET m == RegexMatch(text, label, stop)
    IN [threw |-> FALSE, defined |-> ~m.isNull, text |-> m.group]

\* s.split('\n')
RECURSIVE Split(_)
Split(s) ==
    LET at == IndexFrom(s, NL, 1)
    IN IF at = 0 THEN <<s>>
       ELSE <<SubSeq(s, 1, at - 1)>> \o Split(SubSeq(s, at + 1, Len(s)))

\* s.trim()
RECURSIVE TrimLeft(_)
TrimLeft(s) ==
    IF s # <<>> /\ Head(s) \in Whitespace THEN TrimLeft(Tail(s)) ELSE s

RECURSIVE TrimRight(_)
TrimRight(s) ==
    IF s # <<>> /\ s[Len(s)] \in Whitespace
    THEN TrimRight(SubSeq(s, 1, Len(s) - 1)) ELSE s

Trim(s) == TrimRight(TrimLeft(s))

\* point && !point.match(/^[-(bullet)*]/)
KeepPoint(point) == point # <<>> /\ Head(point) \notin BulletMarkers

\* Number of leading symbols of s that lie in set.
RECURSIVE Leading(_, _)
Leading(s, set) ==
    IF s # <<>> /\ Head(s) \in set THEN 1 + Leading(Tail(s), set) ELSE 0

\* point.replace(/^[0-9]+\.\s*/, '')
StripOrdinal(point) ==
    LET d == Leading(point, Digits)
    IN IF d > 0 /\ d < Len(point) /\ point[d + 1] = "."
       THEN LET rest == SubSeq(point, d + 2, Len(point))
            IN SubSeq(rest, Leading(rest, Whitespace) + 1, Len(rest))
       ELSE point

RECURSIVE FilterPoints(_)
FilterPoints(ls) ==
    IF ls = <<>> THEN <<>>
    ELSE IF KeepPoint(Head(ls)) THEN <<Head(ls)>> \o FilterPoints(Tail(ls))
    ELSE FilterPoints(Tail(ls))

\* section ? section.split('\n').map(trim).filter(...).map(replace) : []
\* ('' and undefined are both falsy)
Points(section) ==
    IF ~section.defined \/ section.text = <<>> THEN <<>>
    ELSE LET ls == Split(section.text)
             trimmed == [i \in 1..Len(ls) |-> Trim(ls[i])]
             kept == FilterPoints(trimmed)
         IN [i \in 1..Len(kept) |-> StripOrdinal(kept[i])]

\* The sections object of one analysis: section i runs from label i to
\* label i+1 (the last one to the end of the text).
Sections(cat, text) ==
    LET ls == LabelsOf(cat)
    IN [i \in 1..Len(ls) |->
          SectionText(text, ls[i], IF i < Len(ls) THEN ls[i + 1] ELSE "")]

\* The object returned from the try block: one list per field.
ParseSections(cat, text) ==
    LET ss == Sections(cat, text)
        fs == FieldsOf(cat)
    IN [f \in Range(fs) |->
          LET i == CHOOSE k \in 1..Len(fs) : fs[k] = f IN Points(ss[i])]

SectionsThrew(cat, text) ==
    \E i \in 1..Len(LabelsOf(cat)) : Sections(cat, text)[i].threw

----------------------------------------------------------------------------
(* The location resolver: findElementLocation of the UI *)

\* The bounding box of element i (from 0) of a collection, named by the
\* element it belongs to; Undefined is JavaScript's undefined.
Box(kind, i) == [kind |-> kind, idx |-> i]
Undefined == [kind |-> "undefined", idx |-> 0]

ElementKinds ==
    {"image", "video", "heading", "paragraph", "link", "form", "navigation"}

\* A collection of n extracted elements, each with its location.
Elements(kind, n) == [i \in 1..n |-> [location |-> Box(kind, i - 1)]]

\* arr[i]?.location
LocationAt(arr, i) ==
    IF i >= 0 /\ i < Len(arr) THEN arr[i + 1].location ELSE Undefined

\* a || b
Or(a, b) == IF a # Undefined THEN a ELSE b

\* The index used without the clamp.
clampIndex_none(index, len) == index

\* Math.min(index, arr.length - 1)
clampIndex(index, len) == IF index < len - 1 THEN index ELSE len - 1

\* The test with the videos left out.
hasElements_noVideos(p) ==
    \/ Len(p.images) > 0
    \/ Len(p.headings) > 0
    \/ Len(p.paragraphs) > 0
    \/ Len(p.links) > 0
    \/ Len(p.forms) > 0
    \/ Len(p.navigation) > 0

hasElements(p) ==
    \/ Len(p.images) > 0
    \/ Len(p.videos) > 0
    \/ Len(p.headings) > 0
    \/ Len(p.paragraphs) > 0
    \/ Len(p.links) > 0
    \/ Len(p.forms) > 0
    \/ Len(p.navigation) > 0

\* issueLower.includes(word): an issue is the set of the words it contains.
Includes(issue, word) == word \in issue

\* The switch on issueType: the location it assigns, or undefined.
\* case 'content' with the headings tested ahead of the paragraphs.
contentRule_headingsFirst(p, index) ==
    IF Len(p.headings) > 0
    THEN LocationAt(p.headings, clampIndex(index, Len(p.headings)))
    ELSE IF Len(p.paragraphs) > 0
    THEN LocationAt(p.paragraphs, clampIndex(index, Len(p.paragraphs)))
    ELSE Undefined

\* case 'content': the paragraph at the clamped index, else the heading.
contentRule(p, index) ==
    IF Len(p.paragraphs) > 0
    THEN LocationAt(p.paragraphs, clampIndex(index, Len(p.paragraphs)))
    ELSE IF Len(p.headings) > 0
    THEN LocationAt(p.headings, clampIndex(index, Len(p.headings)))
    ELSE Undefined

categoryRule(issue, p, index, issueType) ==
    CASE issueType = "exitPoint" ->
           IF Len(p.links) > 0
           THEN LocationAt(p.links, clampIndex(index, Len(p.links)))
           ELSE Undefined
      [] issueType = "designIssue" ->
           IF Len(p.images) > 0
           THEN LocationAt(p.images, clampIndex(index, Len(p.images)))
           ELSE Undefined
      [] issueType = "performance" ->
           IF Includes(issue, "image") /\ Len(p.images) > 0
           THEN LocationAt(p.images, 0)
           ELSE IF Includes(issue, "video") /\ Len(p.videos) > 0
           THEN LocationAt(p.videos, 0)
           ELSE IF Len(p.images) > 0 THEN LocationAt(p.images, 0)
           ELSE Undefined
      [] issueType = "accessibility" ->
           IF Includes(issue, "form") /\ Len(p.forms) > 0
           THEN LocationAt(p.forms, 0)
           ELSE IF Includes(issue, "image") /\ Len(p.images) > 0
           THEN LocationAt(p.images, 0)
           ELSE IF Includes(issue, "navigation") /\ Len(p.navigation) > 0
           THEN LocationAt(p.navigation, 0)
           ELSE IF Len(p.images) > 0 THEN LocationAt(p.images, 0)
           ELSE Undefined
      [] issueType = "seo" ->
           IF Includes(issue, "heading") /\ Len(p.headings) > 0
           THEN LocationAt(p.headings, 0)
           ELSE IF Includes(issue, "content") /\ Len(p.paragraphs) > 0
           THEN LocationAt(p.paragraphs, 0)
           ELSE IF Len(p.headings) > 0 THEN LocationAt(p.headings, 0)
           ELSE Undefined
      [] issueType = "content" -> contentRule(p, index)
      [] OTHER ->
           IF Includes(issue, "navigation") /\ Len(p.navigation) > 0
           THEN LocationAt(p.navigation, 0)
           ELSE IF Includes(issue, "image") /\ Len(p.images) > 0
           THEN LocationAt(p.images, 0)
           ELSE IF Includes(issue, "text") /\ Len(p.paragraphs) > 0
           THEN LocationAt(p.paragraphs, 0)
           ELSE IF Includes(issue, "link") /\ Len(p.links) > 0
           THEN LocationAt(p.links, 0)
           ELSE Undefined

\* The chain tried with headings ahead of images.
fallbackChain_headingsFirst(p) ==
    Or(LocationAt(p.headings, 0), Or(LocationAt(p.images, 0),
    Or(LocationAt(p.paragraphs, 0), Or(LocationAt(p.links, 0),
    Or(LocationAt(p.forms, 0), Or(LocationAt(p.navigation, 0),
       LocationAt(p.videos, 0)))))))

\* allImages[0]?.location || headings[0]?.location || ... || allVideos[0]?.location
fallbackChain(p) ==
    Or(LocationAt(p.images, 0), Or(LocationAt(p.headings, 0),
    Or(LocationAt(p.paragraphs, 0), Or(LocationAt(p.links, 0),
    Or(LocationAt(p.forms, 0), Or(LocationAt(p.navigation, 0),
       LocationAt(p.videos, 0)))))))

findElementLocation(issue, p, index, issueType) ==
    IF ~hasElements(p) THEN Undefined
    ELSE LET loc == categoryRule(issue, p, index, issueType)
         IN IF loc # Undefined THEN loc ELSE fallbackChain(p)

IssueTypes == {"exitPoint", "designIssue", "performance", "accessibility",
               "seo", "content", "other"}

\* The words findElementLocation looks for in an issue.
Keywords == {"image", "video", "form", "navigation", "heading", "content",
             "text", "link"}

\* Issues: no keyword, one keyword, or two keywords one rule tells apart.
IssueTexts ==
    {{}} \cup {{k} : k \in Keywords}
         \cup {{"image", "video"}, {"form", "image"}, {"heading", "content"}}

\* Only element 0 of forms, navigation and videos is ever read: none or one.
SingleCounts == 0..1

Pages ==
    {[images |-> Elements("image", ni), headings |-> Elements("heading", nh),
      paragraphs |-> Elements("paragraph", np), links |-> Elements("link", nl),
      forms |-> Elements("form", nf), navigation |-> Elements("navigation", nn),
      videos |-> Elements("video", nv)] :
        ni \in 0..MaxElems, nh \in 0..MaxElems, np \in 0..MaxElems,
        nl \in 0..MaxElems, nf \in SingleCounts, nn \in SingleCounts,
        nv \in SingleCounts}

EmptyPage == [k \in {"images", "headings", "paragraphs", "links", "forms",
                     "navigation", "videos"} |-> <<>>]

NoLocate == [issue |-> {}, index |-> 0, issueType |-> "none"]

ResolverIdle ==
    /\ pageAnalysis = EmptyPage
    /\ locate = NoLocate
    /\ location = Undefined

\* The model requests of both pipelines: the three of analyze and the single
\* one of analyzePageContent.
Requests == Categories \cup {"combined"}

NoOutcome == [kind |-> "none", text |-> <<>>]

\* No analysis request under way.
PipelineIdle ==
    /\ impl = "server"
    /\ apiKey = TRUE
    /\ pc = "idle"
    /\ browser = "none"
    /\ reqState = [r \in Requests |-> "Idle"]
    /\ resp = [r \in Requests |-> NoOutcome]
    /\ partial = [r \in Categories |-> [none |-> TRUE]]
    /\ issued = 0
    /\ response = "none"
    /\ error = "none"
    /\ status = "running"

----------------------------------------------------------------------------
(* Idle values of the auto-scroll sweep, the HTTP endpoints and the UI *)

NoPage == [scrollHeight |-> 0, innerHeight |-> 0, scrollY |-> 0, growth |-> 0,
           grown |-> 0, scrolled |-> FALSE, elems |-> <<>>]
NoSweep == [state |-> "idle", totalHeight |-> 0, ticks |-> 0, startHeight |-> 0]

ScrollIdle ==
    /\ page = NoPage
    /\ sweep = NoSweep
    /\ boxes = <<>>

\* A JavaScript value of a request body: its type, the characters of a
\* string, the value of a number.
JsUndefined == [type |-> "undefined", chars |-> <<>>, num |-> 0]
NoRequest == [endpoint |-> "none", handler |-> "none", value |-> JsUndefined]
NoReply == [status |-> 0, field |-> "none", source |-> "none"]

EndpointIdle ==
    /\ request = NoRequest
    /\ reply = NoReply
    /\ hstate = "idle"
    /\ calls = 0

Null == [kind |-> "null", idx |-> 0]
NoPress == [list |-> "none", ordinal |-> 0]
NoTimer == [armed |-> FALSE, index |-> 0, location |-> Undefined, click |-> 0,
            row |-> NoPress]
\* The App state behind the highlight.  removeTimers holds the pending 3 s
\* timers, each named by the number of the click that armed it; clicks,
\* setBy (the click whose highlight is shown) and clicked (the row whose
\* Locate button or dot set activeHighlight) are kept for the claims, the
\* code keeps no such values.
UiInit == [autoScrolling |-> FALSE, isSearchingElement |-> FALSE,
           activeHighlight |-> Null, highlightLocation |-> Null,
           fallbackHighlight |-> FALSE, locateTimer |-> NoTimer, removeTimers |-> {},
           clicks |-> 0, setBy |-> 0, clicked |-> NoPress]

\* No coordinates: the location of element i of a kind is layout[kind][i + 1].
NoLayout == [k \in {"link", "image", "heading", "paragraph"} |-> <<>>]

\* useState('') of currentIssue and currentSolution, useState(false) of
\* showHowToPopup and isLoadingSolution; pending holds the calls of
\* generateAISolution that have not settled, retryToast the issue the
\* error toast offers a retry for.
NoSolution == [issue |-> "", source |-> "none"]
PopupInit == [showHowToPopup |-> FALSE, currentIssue |-> "",
              currentSolution |-> NoSolution, isLoadingSolution |-> FALSE,
              pending |-> {}, retryToast |-> "", requests |-> 0]

UiIdle ==
    /\ pressed = NoPress
    /\ ui = UiInit
    /\ layout = NoLayout
    /\ popup = PopupInit

----------------------------------------------------------------------------
(* The three analysis functions of src/api/analyze.js *)

\* What openai.chat.completions.create can do: reject (no connection, or a
\* non-success status, which the client turns into a rejection), resolve to
\* a body without choices[0].message, or resolve with message.content being
\* null, something non-empty that is not a string, or a string.
ThrowingKinds == {"networkError", "badStatus", "noChoices", "nonStringContent"}
OutcomeKinds == ThrowingKinds \cup {"nullContent", "text"}

\* analysis.choices[0].message.content || ''
ResponseText(o) == IF o.kind = "text" THEN o.text ELSE <<>>

\* The object returned from the catch block.
ErrorEntry(cat) ==
    CASE cat = "visual" -> <<"Error analyzing page with AI">>
      [] cat = "assets" -> <<"Error analyzing assets with AI">>
      [] cat = "content" -> <<"Error analyzing content with AI">>

\* A catch block that returns nothing but empty lists.
ErrorResult_allEmpty(cat) == [f \in Range(FieldsOf(cat)) |-> <<>>]

ErrorResult(cat) ==
    [f \in Range(FieldsOf(cat)) |->
        IF f = FieldsOf(cat)[1] THEN <<ErrorEntry(cat)>> ELSE <<>>]

\* try { create; parse; return lists } catch { return error lists }
\* threw: whether the function lets an error out to its caller.
AnalyzeWithAI(cat, o) ==
    IF o.kind \in ThrowingKinds \/ SectionsThrew(cat, ResponseText(o))
    THEN [threw |-> FALSE, state |-> "Failed", value |-> ErrorResult(cat)]
    ELSE [threw |-> FALSE, state |-> "Parsed",
          value |-> ParseSections(cat, ResponseText(o))]

\* The catch block passing the error on: catch (error) { throw error; }
analyzeAssetsWithAI_rethrows(o) ==
    LET r == AnalyzeWithAI("assets", o) IN [r EXCEPT !.threw = (r.state = "Failed")]

analyzeAssetsWithAI(o) == AnalyzeWithAI("assets", o)
analyzeContentWithAI(o) == AnalyzeWithAI("content", o)
analyzePageWithAI(o) == AnalyzeWithAI("visual", o)

AnalysisOf(cat, o) ==
    CASE cat = "visual" -> analyzePageWithAI(o)
      [] cat = "assets" -> analyzeAssetsWithAI(o)
      [] cat = "content" -> analyzeContentWithAI(o)

----------------------------------------------------------------------------
(* Inputs: narratives *)

\* What a line of a narrative can be, besides a label on a line of its own.
LineBodies ==
    { <<>>, <<"A">>, <<SP, "B", SP>>, <<"-">>, <<"-", SP, "A">>,
      <<"1", ".", SP, "A">>, <<"1", ".">> }

LineKinds(cat) == LineBodies \cup {<<LabelsOf(cat)[i]>> : i \in 1..Len(LabelsOf(cat))}

\* lines.join('\n')
RECURSIVE Join(_)
Join(ls) ==
    IF ls = <<>> THEN <<>>
    ELSE IF Len(ls) = 1 THEN ls[1]
    ELSE ls[1] \o <<NL>> \o Join(Tail(ls))

LineSeqs(cat) == UNION {[1..n -> LineKinds(cat)] : n \in 0..MaxLines}

Narratives(cat) == {Join(ls) : ls \in LineSeqs(cat)}

Outcomes(cat) ==
    {[kind |-> k, text |-> <<>>] : k \in OutcomeKinds \ {"text"}}
    \cup {[kind |-> "text", text |-> t] : t \in Narratives(cat)}

NoResult == [none |-> TRUE]

\* A page nothing was extracted from.
EmptyPageContent == [headings |-> <<>>, paragraphs |-> <<>>,
                  description |-> [present |-> TRUE, text |-> <<>>]]
EmptyAssets == [images |-> <<>>]

----------------------------------------------------------------------------
(* One model request: Idle -> Requested -> Parsed | Failed *)

InitRequest ==
    /\ category \in Categories
    /\ outcome \in Outcomes(category)
    /\ parsed = NoResult
    /\ rstate = "Idle"
    /\ content = EmptyPageContent
    /\ assets = EmptyAssets
    /\ analysis = NoResult
    /\ ResolverIdle
    /\ PipelineIdle
    /\ ScrollIdle
    /\ EndpointIdle
    /\ UiIdle

\* await openai.chat.completions.create(...)
IssueRequest ==
    /\ rstate = "Idle"
    /\ rstate' = "Requested"
    /\ UNCHANGED <<category, outcome, parsed, content, assets, analysis, resolverVars,
                   pipelineVars, scrollVars, endpointVars, uiVars>>

\* The rest of the function, once the request has settled.
SettleRequest ==
    /\ rstate = "Requested"
    /\ LET r == AnalysisOf(category, outcome)
       IN /\ rstate' = r.state
          /\ parsed' = r.value
    /\ UNCHANGED <<category, outcome, content, assets, analysis, resolverVars,
                   pipelineVars, scrollVars, endpointVars, uiVars>>

NextRequest == IssueRequest \/ SettleRequest

SpecRequest == InitRequest /\ [][NextRequest]_vars

----------------------------------------------------------------------------
(* The heuristic analyzer: generateDefaultAnalysis of api/analyze *)

DigitOf(n) == <<"0", "1", "2", "3", "4", "5", "6", "7", "8", "9">>[n + 1]

\* `${n}`: the decimal digits of n.
RECURSIVE NumStr(_)
NumStr(n) ==
    IF n < 10 THEN <<DigitOf(n)>> ELSE NumStr(n \div 10) \o <<DigitOf(n % 10)>>

\* !s || s.trim() === ''   (s may be undefined)
Blank(s) == ~s.present \/ s.text = <<>> \/ Trim(s.text) = <<>>

\* assets.images.filter(img => !img.alt).length: the trim test forgotten.
imagesWithoutAlt_noTrim(as) ==
    Cardinality({i \in 1..Len(as.images) :
        ~as.images[i].alt.present \/ as.images[i].alt.text = <<>>})

\* assets.images.filter(img => !img.alt || img.alt.trim() === '').length
imagesWithoutAlt(as) ==
    Cardinality({i \in 1..Len(as.images) : Blank(as.images[i].alt)})

\* assets.images.filter(img => img.width > 1000 || img.height > 1000).length
largeImages(as) ==
    Cardinality({i \in 1..Len(as.images) :
        as.images[i].width > 1000 \/ as.images[i].height > 1000})

\* headings.filter(h => h.level <= 2).length: H2 counted as H1.
h1Count_upToH2(headings) ==
    Cardinality({i \in 1..Len(headings) : headings[i].level <= 2})

\* headings.filter(h => h.level === 1).length
h1Count(headings) ==
    Cardinality({i \in 1..Len(headings) : headings[i].level = 1})

EmptyAnalysis ==
    [visual |-> [f \in Range(VisualFields) |-> <<>>],
     assets |-> [f \in Range(AssetsFields) |-> <<>>],
     content |-> [f \in Range(ContentFields) |-> <<>>]]

\* analysis[cat][list].push(issue) with the recommendation push forgotten.
Push2_issueOnly(a, cat, list, issue, rec) ==
    [a EXCEPT ![cat][list] = Append(@, issue)]

\* analysis[cat][list].push(issue); analysis[cat].recommendations.push(rec)
Push2(a, cat, list, issue, rec) ==
    [a EXCEPT ![cat][list] = Append(@, issue),
              ![cat]["recommendations"] = Append(@, rec)]

AltIssueText == " images missing alt text"
AltRecommendation == <<"Add descriptive alt text to all images">>

generateDefaultAnalysis(c, as) ==
    LET a0 == EmptyAnalysis
        noAlt == imagesWithoutAlt(as)
        a1 == IF noAlt > 0
              THEN Push2(a0, "assets", "accessibilityIssues",
                         NumStr(noAlt) \o <<AltIssueText>>, AltRecommendation)
              ELSE a0
        large == largeImages(as)
        a2 == IF large > 0
              THEN Push2(a1, "assets", "performanceIssues",
                         NumStr(large) \o <<" large images may slow down page load">>,
                         <<"Optimize and resize large images">>)
              ELSE a1
        h1 == h1Count(c.headings)
        a3 == IF Len(c.headings) = 0
              THEN Push2(a2, "content", "structureIssues",
                         <<"No headings found on the page">>,
                         <<"Add proper heading structure (H1, H2, etc.)">>)
              ELSE IF h1 = 0
              THEN Push2(a2, "content", "structureIssues",
                         <<"No H1 heading found">>,
                         <<"Add a single H1 heading as the main title">>)
              ELSE IF h1 > 1
              THEN Push2(a2, "content", "structureIssues",
                         <<"Multiple H1 headings (">> \o NumStr(h1) \o <<") found">>,
                         <<"Use only one H1 heading per page">>)
              ELSE a2
        a4 == IF Blank(c.description)
              THEN Push2(a3, "content", "seoIssues",
                         <<"Missing meta description">>,
                         <<"Add a descriptive meta description">>)
              ELSE a3
        a5 == IF Len(c.paragraphs) < 3
              THEN Push2(a4, "content", "qualityIssues",
                         <<"Limited text content found">>,
                         <<"Add more descriptive text content">>)
              ELSE a4
    IN a5

----------------------------------------------------------------------------
(* Inputs: extracted pages *)

SeqsUpTo(S, n) == UNION {[1..k -> S] : k \in 0..n}

\* The extractor stores `img.alt || ''` and `meta?.content || ''`: always a
\* string, here '', ' ' or 'x'.
ExtractedTexts ==
    {[present |-> TRUE, text |-> <<>>], [present |-> TRUE, text |-> <<SP>>],
     [present |-> TRUE, text |-> <<"x">>]}

ImageSizes == {<<1000, 1000>>, <<1001, 1000>>, <<1000, 1001>>}

Images == {[alt |-> a, width |-> d[1], height |-> d[2]] :
              a \in ExtractedTexts, d \in ImageSizes}
Headings == [level : {1, 2}]
Paragraphs == {<<"p">>}

Contents(maxH, maxP) ==
    [headings : SeqsUpTo(Headings, maxH), paragraphs : SeqsUpTo(Paragraphs, maxP),
     description : ExtractedTexts]

AssetsSets(maxI) == [images : SeqsUpTo(Images, maxI)]

----------------------------------------------------------------------------
(* The heuristic analyzer run on its own *)

InitHeuristic ==
    /\ content \in Contents(MaxHeadings, MaxParagraphs)
    /\ assets \in AssetsSets(MaxImages)
    /\ analysis = NoResult
    /\ category = "visual"
    /\ outcome = [kind |-> "nullContent", text |-> <<>>]
    /\ parsed = NoResult
    /\ rstate = "Idle"
    /\ ResolverIdle
    /\ PipelineIdle
    /\ ScrollIdle
    /\ EndpointIdle
    /\ UiIdle

RunHeuristic ==
    /\ analysis = NoResult
    /\ analysis' = generateDefaultAnalysis(content, assets)
    /\ UNCHANGED <<requestVars, pageVars, resolverVars, pipelineVars, scrollVars,
                   endpointVars, uiVars>>

NextHeuristic == RunHeuristic

SpecHeuristic == InitHeuristic /\ [][NextHeuristic]_vars

----------------------------------------------------------------------------
(* The resolver run on an analysed page *)

InitResolver ==
    /\ pageAnalysis \in Pages
    /\ locate = NoLocate
    /\ location = Undefined
    /\ content = EmptyPageContent
    /\ assets = EmptyAssets
    /\ analysis = NoResult
    /\ category = "visual"
    /\ outcome = [kind |-> "nullContent", text |-> <<>>]
    /\ parsed = NoResult
    /\ rstate = "Idle"
    /\ PipelineIdle
    /\ ScrollIdle
    /\ EndpointIdle
    /\ UiIdle

\* const location = findElementLocation(issue, analysis.mainPage, index, issueType)
Locate(issue, index, issueType) ==
    /\ locate = NoLocate
    /\ locate' = [issue |-> issue, index |-> index, issueType |-> issueType]
    /\ location' = findElementLocation(issue, pageAnalysis, index, issueType)
    /\ UNCHANGED <<requestVars, pageVars, analysis, pageAnalysis, pipelineVars,
                   scrollVars, endpointVars, uiVars>>

NextResolver ==
    \E issue \in IssueTexts, index \in 0..(MaxElems + 1), issueType \in IssueTypes :
        Locate(issue, index, issueType)

SpecResolver == InitResolver /\ [][NextResolver]_vars

----------------------------------------------------------------------------
(* Claims about the resolver (SpecResolver) *)

Located == locate # NoLocate

\* C7: for an exit-point issue with index >= 0 on a page with at least one
\* link, the result is the box of the link at min(index, links - 1): the
\* last link's box once index >= links, and never undefined.
C7_ExitPointClamped ==
    (Located /\ locate.issueType = "exitPoint" /\ Len(pageAnalysis.links) > 0) =>
        LET n == Len(pageAnalysis.links)
            want == IF locate.index >= n THEN n - 1 ELSE locate.index
        IN /\ location # Undefined
           /\ location = Box("link", want)

C7_Witness ==
    /\ Located
    /\ locate.issueType = "exitPoint"
    /\ Len(pageAnalysis.links) = 2
    /\ Len(pageAnalysis.images) > 0
    /\ locate.index = 3
    /\ location = Box("link", 1)

AllCollectionsEmpty ==
    /\ pageAnalysis.images = <<>>
    /\ pageAnalysis.headings = <<>>
    /\ pageAnalysis.paragraphs = <<>>
    /\ pageAnalysis.links = <<>>
    /\ pageAnalysis.forms = <<>>
    /\ pageAnalysis.navigation = <<>>
    /\ pageAnalysis.videos = <<>>

\* C8: whatever the issue text, category and index, the result is "no
\* location" exactly when images, headings, paragraphs, links, forms,
\* navigation blocks and videos are all empty.
C8_NoLocationIffEmpty ==
    Located => (location = Undefined <=> AllCollectionsEmpty)

C8_Witness ==
    /\ Located
    /\ pageAnalysis.videos # <<>>
    /\ \A k \in DOMAIN pageAnalysis \ {"videos"} : pageAnalysis[k] = <<>>
    /\ locate.issueType = "exitPoint"
    /\ location = Box("video", 0)

FallbackOrder == <<"images", "headings", "paragraphs", "links", "forms",
                   "navigation", "videos">>

\* The first element of the first non-empty collection in the fixed order.
FirstOfFirstNonEmpty(p) ==
    LET full == {i \in 1..Len(FallbackOrder) : p[FallbackOrder[i]] # <<>>}
    IN IF full = {} THEN Undefined
       ELSE LET i == CHOOSE k \in full : \A j \in full : k <= j
            IN p[FallbackOrder[i]][1].location

\* C9: whenever the category rule yields no location, the result is the
\* location of the first element of the first non-empty collection in the
\* order images, headings, paragraphs, links, forms, navigation, videos.
C9_FallbackOrder ==
    (Located /\ categoryRule(locate.issue, pageAnalysis, locate.index,
                             locate.issueType) = Undefined)
        => location = FirstOfFirstNonEmpty(pageAnalysis)

C9_Witness ==
    /\ Located
    /\ locate.issueType = "exitPoint"
    /\ pageAnalysis.links = <<>>
    /\ pageAnalysis.images # <<>>
    /\ pageAnalysis.headings # <<>>
    /\ location = Box("image", 0)

\* C21: a content issue with index >= 0 resolves to the paragraph at
\* min(index, paragraphs - 1) when a paragraph exists, otherwise to the
\* heading at min(index, headings - 1) when a heading exists, and only
\* otherwise to the first element of the generic fallback chain.
C21_ContentRule ==
    (Located /\ locate.issueType = "content") =>
        LET np == Len(pageAnalysis.paragraphs)
            nh == Len(pageAnalysis.headings)
            i == locate.index
        IN /\ np > 0 => location = Box("paragraph", IF i >= np THEN np - 1 ELSE i)
           /\ (np = 0 /\ nh > 0)
                 => location = Box("heading", IF i >= nh THEN nh - 1 ELSE i)
           /\ (np = 0 /\ nh = 0) => location = FirstOfFirstNonEmpty(pageAnalysis)

C21_Witness ==
    /\ Located
    /\ locate.issueType = "content"
    /\ pageAnalysis.paragraphs = <<>>
    /\ Len(pageAnalysis.headings) = 2
    /\ Len(pageAnalysis.images) > 0
    /\ locate.index = 3
    /\ location = Box("heading", 1)

----------------------------------------------------------------------------
(* Claims about the heuristic analyzer (SpecHeuristic) *)

\* The images whose alt is missing, empty or only blanks.
AltLess == {i \in 1..Len(assets.images) :
               LET alt == assets.images[i].alt
               IN ~alt.present \/ \A k \in 1..Len(alt.text) : alt.text[k] \in Whitespace}

IsAltIssue(s) == s # <<>> /\ s[Len(s)] = AltIssueText

Occurrences(list, x) == Cardinality({i \in 1..Len(list) : list[i] = x})

\* C10: no alt-text issue (and no companion recommendation) when no image
\* lacks alt text; otherwise exactly one accessibility issue, whose embedded
\* count is the number N of images with a missing, empty or blank alt, and
\* exactly one companion recommendation, whatever N is.
C10_AltIssueCount ==
    analysis # NoResult =>
        LET N == Cardinality(AltLess)
            acc == analysis["assets"]["accessibilityIssues"]
            recs == analysis["assets"]["recommendations"]
            altIssues == {i \in 1..Len(acc) : IsAltIssue(acc[i])}
        IN /\ N = 0 => (altIssues = {} /\ Occurrences(recs, AltRecommendation) = 0)
           /\ N > 0 => /\ Cardinality(altIssues) = 1
                        /\ acc = <<NumStr(N) \o <<AltIssueText>>>>
                        /\ Occurrences(recs, AltRecommendation) = 1

C10_Witness ==
    /\ analysis # NoResult
    /\ Len(assets.images) = 2
    /\ Cardinality(AltLess) = 2
    /\ \E i \in 1..2 : assets.images[i].alt = [present |-> TRUE, text |-> <<SP>>]
    /\ analysis["assets"]["accessibilityIssues"] = <<<<"2", AltIssueText>>>>

\* The level-1 headings of the extracted page.
H1s == {i \in 1..Len(content.headings) : content.headings[i].level = 1}

NoH1Issue == <<"No H1 heading found">>
MultipleH1Issue(k) == <<"Multiple H1 headings (">> \o NumStr(k) \o <<") found">>
IsMultipleH1Issue(s) == s # <<>> /\ s[1] = "Multiple H1 headings ("

\* C11: for a non-empty heading list with k level-1 headings, the structure
\* issues are exactly "No H1 heading found" when k = 0, exactly
\* "Multiple H1 headings (k) found" when k >= 2, and hold no H1 issue when
\* k = 1; the two H1 issues never appear together.
C11_H1Issues ==
    (analysis # NoResult /\ content.headings # <<>>) =>
        LET k == Cardinality(H1s)
            st == analysis["content"]["structureIssues"]
            noH1 == {i \in 1..Len(st) : st[i] = NoH1Issue}
            multi == {i \in 1..Len(st) : IsMultipleH1Issue(st[i])}
        IN /\ k = 0 => st = <<NoH1Issue>>
           /\ k >= 2 => st = <<MultipleH1Issue(k)>>
           /\ k = 1 => (noH1 = {} /\ multi = {})
           /\ ~(noH1 # {} /\ multi # {})

C11_Witness ==
    /\ analysis # NoResult
    /\ Len(content.headings) = 2
    /\ Cardinality(H1s) = 2
    /\ analysis["content"]["structureIssues"]
           = <<<<"Multiple H1 headings (", "2", ") found">>>>

NoHeadingsIssue == <<"No headings found on the page">>

\* C22 as stated: each heuristic rule fires on its own condition alone, so
\* the zero-H1 issue is emitted exactly when the page has no level-1
\* heading, and a page with zero headings gets both the zero-headings and
\* the zero-H1 structure issue.
C22_Original ==
    analysis # NoResult =>
        LET st == Range(analysis["content"]["structureIssues"])
        IN /\ (content.headings = <<>>) <=> (NoHeadingsIssue \in st)
           /\ (Cardinality(H1s) = 0) <=> (NoH1Issue \in st)

\* The issue lists of a category: every list but recommendations.
IssueLists(cat) == Range(FieldsOf(cat)) \ {"recommendations"}

RECURSIVE TotalLength(_, _)
TotalLength(res, lists) ==
    IF lists = {} THEN 0
    ELSE LET l == CHOOSE x \in lists : TRUE
         IN Len(res[l]) + TotalLength(res, lists \ {l})

\* C12: every issue is paired with one recommendation: the length of
\* assets.recommendations is the number of assets issues emitted and the
\* length of content.recommendations is the number of content issues emitted.
C12_IssuesPaired ==
    analysis # NoResult =>
        \A cat \in {"assets", "content"} :
            Len(analysis[cat]["recommendations"])
                = TotalLength(analysis[cat], IssueLists(cat))

C12_Witness ==
    /\ analysis # NoResult
    /\ Len(analysis["assets"]["recommendations"]) = 2
    /\ Len(analysis["assets"]["accessibilityIssues"]) = 1
    /\ Len(analysis["assets"]["performanceIssues"]) = 1
    /\ Len(analysis["content"]["recommendations"]) = 3
    /\ Len(analysis["content"]["structureIssues"]) = 1
    /\ Len(analysis["content"]["seoIssues"]) = 1
    /\ Len(analysis["content"]["qualityIssues"]) = 1

----------------------------------------------------------------------------
(* Claims about one model request (SpecRequest) *)

Settled == rstate \in {"Parsed", "Failed"}

PrimaryField(cat) ==
    CASE cat = "visual" -> "exitPoints"
      [] cat = "assets" -> "performanceIssues"
      [] cat = "content" -> "structureIssues"

\* One synthetic entry in the primary list, every other list empty.
IsDegraded(cat, res) ==
    /\ DOMAIN res = Range(FieldsOf(cat))
    /\ res[PrimaryField(cat)] = <<ErrorEntry(cat)>>
    /\ \A f \in DOMAIN res \ {PrimaryField(cat)} : res[f] = <<>>

AllListsEmpty(res) == \A f \in DOMAIN res : res[f] = <<>>

EmptyContent(o) == o.kind = "nullContent" \/ (o.kind = "text" /\ o.text = <<>>)

\* C2 as stated: a request that met a network error, a non-success status,
\* empty content or malformed content leaves its category with exactly one
\* synthetic "Error analyzing X with AI" entry in the primary list and
\* every other list empty.
C2_Original ==
    (Settled /\ (outcome.kind \in ThrowingKinds \/ EmptyContent(outcome)))
        => IsDegraded(category, parsed)

\* C2 amended: a network error, a non-success status or a malformed response
\* (no choices[0].message, or a non-empty content that is not a string) ends
\* the request in Failed with exactly one synthetic entry in the primary list
\* and every other list empty; empty content (null or '') does not fail the request:
\* it is parsed as the empty narrative and every list is empty.
C2_Amended ==
    Settled =>
        /\ outcome.kind \in ThrowingKinds
              => (rstate = "Failed" /\ IsDegraded(category, parsed))
        /\ EmptyContent(outcome)
              => (rstate = "Parsed" /\ AllListsEmpty(parsed))

C2_Witness ==
    /\ rstate = "Failed"
    /\ outcome.kind = "badStatus"
    /\ category = "content"
    /\ parsed["structureIssues"] = <<ErrorEntry("content")>>

LabelAbsent(cat, i, text) == LabelsOf(cat)[i] \notin Range(text)

\* C4: for every narrative, the empty one included, the parse raises no
\* error (the request ends in Parsed, never in the catch block), and the
\* list of every label that does not occur in the narrative is empty.
C4_MissingLabelEmpty ==
    (Settled /\ outcome.kind = "text") =>
        /\ rstate = "Parsed"
        /\ \A i \in 1..Len(LabelsOf(category)) :
              LabelAbsent(category, i, outcome.text)
                  => parsed[FieldsOf(category)[i]] = <<>>

C4_Witness ==
    /\ rstate = "Parsed"
    /\ category = "visual"
    /\ outcome.kind = "text"
    /\ "Exit Points:" \in Range(outcome.text)
    /\ "Design Issues:" \notin Range(outcome.text)
    /\ parsed["exitPoints"] # <<>>
    /\ parsed["designIssues"] = <<>>

\* Positions of the symbols of text that are labels of cat.
LabelPositions(cat, text) ==
    {p \in 1..Len(text) : text[p] \in Range(LabelsOf(cat))}

\* The text a label owns according to the specification: from the label to
\* the next known label after it, or to the end of the text.
OwnedText(cat, i, text) ==
    LET at == IndexFrom(text, LabelsOf(cat)[i], 1)
        later == {p \in LabelPositions(cat, text) : p > at}
        last == IF later = {} THEN Len(text)
                ELSE (CHOOSE p \in later : \A q \in later : p <= q) - 1
    IN [threw |-> FALSE, defined |-> at # 0,
        text |-> IF at = 0 THEN <<>> ELSE SubSeq(text, at + 1, last)]

\* Each label at most once, and the labels that occur, in the fixed order.
InExpectedOrder(cat, text) ==
    LET ls == LabelsOf(cat)
    IN /\ \A p, q \in LabelPositions(cat, text) : text[p] = text[q] => p = q
       /\ \A i, j \in 1..Len(ls) :
             (i < j /\ ~LabelAbsent(cat, i, text) /\ ~LabelAbsent(cat, j, text))
                 => IndexFrom(text, ls[i], 1) < IndexFrom(text, ls[j], 1)

\* The non-empty trimmed lines of a piece of text, in order.
RECURSIVE NonEmpty(_)
NonEmpty(ls) ==
    IF ls = <<>> THEN <<>>
    ELSE IF Head(ls) # <<>> THEN <<Head(ls)>> \o NonEmpty(Tail(ls))
    ELSE NonEmpty(Tail(ls))

TrimmedLines(t) ==
    LET ls == Split(t) IN NonEmpty([i \in 1..Len(ls) |-> Trim(ls[i])])

\* No line starts with a bullet marker or a digit: nothing for the parser to
\* drop or strip besides blanks.
PlainLines(text) ==
    \A l \in Range(TrimmedLines(text)) :
        Head(l) \notin BulletMarkers \cup Digits

\* C5 as stated, on narratives of plain lines: when the labels appear in the
\* expected order, each section's list is the sequence of the non-empty
\* trimmed lines of that section, in order; no line is duplicated or moved
\* into another section.
C5_Original ==
    (Settled /\ outcome.kind = "text"
        /\ InExpectedOrder(category, outcome.text) /\ PlainLines(outcome.text))
    => \A i \in 1..Len(LabelsOf(category)) :
          parsed[FieldsOf(category)[i]]
              = TrimmedLines(OwnedText(category, i, outcome.text).text)

\* C6 as stated, on narratives that name each label at most once and in the
\* fixed order: the text extracted for a label ends at the next known label
\* after it, or at the end of the text, so with an intermediate label left
\* out a section's list holds neither the later label line nor a line of
\* the later section.
C6_Original ==
    (Settled /\ outcome.kind = "text" /\ InExpectedOrder(category, outcome.text)) =>
        \A i \in 1..Len(LabelsOf(category)) :
            parsed[FieldsOf(category)[i]]
                = Points(OwnedText(category, i, outcome.text))

\* A line that is a bullet marker and nothing else.
BulletOnly(l) == Len(l) = 1 /\ l[1] \in BulletMarkers

\* The text the parser extracted for label i, '' when the label is absent.
ExtractedText(cat, i, text) ==
    LET sec == Sections(cat, text)[i]
    IN IF sec.defined THEN sec.text ELSE <<>>

\* C23 as stated: of the lines of the text extracted for a section, the
\* parser drops only the empty ones and the ones that are a bullet marker
\* alone; every other line, a bullet marker followed by text included,
\* contributes an entry to the section's list.
C23_Original ==
    (Settled /\ outcome.kind = "text") =>
        \A i \in 1..Len(LabelsOf(category)) :
            LET ls == TrimmedLines(ExtractedText(category, i, outcome.text))
            IN Len(parsed[FieldsOf(category)[i]])
                  = Cardinality({k \in 1..Len(ls) : ~BulletOnly(ls[k])})

\* C24 as stated: no list produced by the parser contains an empty string;
\* a line that is only an ordinal ("1.") contributes no entry.
C24_Original ==
    Settled => \A f \in DOMAIN parsed : \A k \in 1..Len(parsed[f]) : parsed[f][k] # <<>>

----------------------------------------------------------------------------
(* The analysis request: analyze (src/api/analyze.js, behind server.js) and *)
(* analyzeWebsite (api/analyze, the serverless handler)                    *)

Impls == {"server", "serverless"}

\* The browser calls between launch and the analysis, in program order.
Stages == <<"newPage", "setViewport", "goto", "autoScroll", "screenshot", "extract">>

\* The statement after the last browser call.
AfterExtract(i) == IF i = "server" THEN "assets" ELSE "analyzePageContent"

AfterStage(i, stage) ==
    LET k == CHOOSE n \in 1..Len(Stages) : Stages[n] = stage
    IN IF k < Len(Stages) THEN Stages[k + 1] ELSE AfterExtract(i)

\* The visual analysis started but not awaited before the return.
AfterRequest_returnsEarly(cat) ==
    CASE cat = "assets" -> "content"
      [] cat = "content" -> "return"
      [] cat = "visual" -> "return"

\* The order of the three awaits of analyze.
AfterRequest(cat) ==
    CASE cat = "assets" -> "content"
      [] cat = "content" -> "visual"
      [] cat = "visual" -> "return"

\* Pages the pipeline is run on: nothing extracted; an image without alt
\* text under an H2; a page no rule fires on.
SamplePages ==
    { [content |-> EmptyPageContent, assets |-> EmptyAssets],
      [content |-> [headings |-> <<[level |-> 2]>>, paragraphs |-> <<>>,
                    description |-> [present |-> TRUE, text |-> <<>>]],
       assets |-> [images |-> <<[alt |-> [present |-> TRUE, text |-> <<>>],
                                 width |-> 1001, height |-> 1000]>>]],
      [content |-> [headings |-> <<[level |-> 1]>>,
                    paragraphs |-> <<<<"p">>, <<"p">>, <<"p">>>>,
                    description |-> [present |-> TRUE, text |-> <<"x">>]],
       assets |-> [images |-> <<[alt |-> [present |-> TRUE, text |-> <<"x">>],
                                 width |-> 1000, height |-> 1000]>>]] }

\* Narratives the pipeline is run on: the prefixes of
\* "<first label>\nA\n<last label>\n1. A".
SampleLines(cat) ==
    LET ls == LabelsOf(cat)
    IN << <<ls[1]>>, <<"A">>, <<ls[Len(ls)]>>, <<"1", ".", SP, "A">> >>

SampleNarratives(cat) ==
    {Join(SubSeq(SampleLines(cat), 1, n)) : n \in 1..Len(SampleLines(cat))}

\* Without a credential the service answers no request with a completion.
PipelineOutcomes(cat, key) ==
    IF key
    THEN {[kind |-> k, text |-> <<>>] : k \in OutcomeKinds \ {"text"}}
         \cup {[kind |-> "text", text |-> t] : t \in SampleNarratives(cat)}
    ELSE {[kind |-> k, text |-> <<>>] : k \in {"networkError", "badStatus"}}

\* The single request of analyzePageContent answers with JSON text.
JsonNull == [isNull |-> TRUE]
SampleJson ==
    {EmptyAnalysis, [EmptyAnalysis EXCEPT !["visual"]["exitPoints"] = <<<<"A">>>>]}

CombinedOutcomes ==
    {[kind |-> k, value |-> JsonNull] :
        k \in {"networkError", "badStatus", "noChoices", "nullContent", "badJson"}}
    \cup {[kind |-> "json", value |-> v] : v \in SampleJson}

\* The rest of analyzePageContent once the request has settled:
\* JSON.parse(completion.choices[0].message.content), or the catch block.
analyzePageContent(o, c, as) ==
    CASE o.kind \in {"networkError", "badStatus", "noChoices", "badJson"} ->
           [state |-> "Failed", value |-> generateDefaultAnalysis(c, as)]
      [] o.kind = "nullContent" -> [state |-> "Parsed", value |-> JsonNull]
      [] OTHER -> [state |-> "Parsed", value |-> o.value]

InitPipeline ==
    /\ impl \in Impls
    /\ apiKey \in BOOLEAN
    /\ \E pg \in SamplePages : content = pg.content /\ assets = pg.assets
    /\ analysis = NoResult
    /\ pc = "launch"
    /\ browser = "none"
    /\ reqState = [r \in Requests |-> "Idle"]
    /\ resp = [r \in Requests |-> NoOutcome]
    /\ partial = [r \in Categories |-> NoResult]
    /\ issued = 0
    /\ status = "running"
    /\ response = "none"
    /\ error = "none"
    /\ category = "visual"
    /\ outcome = [kind |-> "nullContent", text |-> <<>>]
    /\ parsed = NoResult
    /\ rstate = "Idle"
    /\ ResolverIdle
    /\ ScrollIdle
    /\ EndpointIdle
    /\ UiIdle

idleVars == <<requestVars, resolverVars, scrollVars, endpointVars, uiVars>>

\* browser = await puppeteer.launch(...).  analyze launches inside its try;
\* analyzeWebsite launches before it, so a failed launch goes to the caller.
Launch(ok) ==
    /\ pc = "launch"
    /\ IF ok
       THEN /\ browser' = "open"
            /\ pc' = "newPage"
            /\ status' = status
            /\ error' = error
       ELSE /\ browser' = browser
            /\ pc' = IF impl = "server" THEN "catch" ELSE "done"
            /\ status' = IF impl = "server" THEN status ELSE "thrown"
            /\ error' = "launch"
    /\ UNCHANGED <<impl, apiKey, reqState, resp, partial, issued, pageVars,
                   analysis, response, idleVars>>

\* newPage, setViewport, autoScroll, screenshot and the extract calls: each
\* resolves, or rejects into the catch block.
PageStep(ok) ==
    /\ pc \in Range(Stages) \ {"goto"}
    /\ pc' = IF ok THEN AfterStage(impl, pc) ELSE "catch"
    /\ error' = IF ok THEN error ELSE pc
    /\ UNCHANGED <<impl, apiKey, browser, reqState, resp, partial, issued,
                   status, pageVars, analysis, response, idleVars>>

\* page.goto: resolves with a response of success status, resolves with a
\* response of non-success status, or rejects (timeout).  Only analyze tests
\* response.ok() and throws 'Failed to load page'.
Goto(result) ==
    /\ pc = "goto"
    /\ pc' = CASE result = "ok" -> AfterStage(impl, "goto")
                [] result = "httpError" ->
                     IF impl = "server" THEN "catch" ELSE AfterStage(impl, "goto")
                [] OTHER -> "catch"
    /\ response' = CASE result = "ok" -> "ok"
                      [] result = "httpError" -> "notOk"
                      [] OTHER -> response
    /\ error' = CASE result = "timeout" -> "goto"
                   [] result = "httpError" /\ impl = "server" -> "status"
                   [] OTHER -> error
    /\ UNCHANGED <<impl, apiKey, browser, reqState, resp, partial, issued,
                   status, pageVars, analysis, idleVars>>

\* analyze: await openai.chat.completions.create(...) of one of the three
\* analysis functions.
RequestAI(cat) ==
    /\ impl = "server"
    /\ pc = cat
    /\ reqState[cat] = "Idle"
    /\ reqState' = [reqState EXCEPT ![cat] = "Requested"]
    /\ issued' = issued + 1
    /\ UNCHANGED <<impl, apiKey, pc, browser, resp, partial, status, pageVars,
                   analysis, response, error,
                   idleVars>>

\* A settle that puts a failed request back to Idle, to be issued again.
SettleAI_retries(cat, o) ==
    /\ impl = "server"
    /\ pc = cat
    /\ reqState[cat] = "Requested"
    /\ LET r == AnalysisOf(cat, o)
       IN /\ resp' = [resp EXCEPT ![cat] = o]
          /\ IF r.state = "Failed"
             THEN /\ reqState' = [reqState EXCEPT ![cat] = "Idle"]
                  /\ pc' = pc /\ partial' = partial /\ error' = error
             ELSE /\ reqState' = [reqState EXCEPT ![cat] = r.state]
                  /\ pc' = AfterRequest(cat)
                  /\ partial' = [partial EXCEPT ![cat] = r.value]
                  /\ error' = error
    /\ UNCHANGED <<impl, apiKey, browser, issued, status, pageVars, analysis, response,
                   idleVars>>

\* analyze: the request settles and the analysis function returns (or lets
\* an error out, which the catch block of analyze takes).
SettleAI(cat, o) ==
    /\ impl = "server"
    /\ pc = cat
    /\ reqState[cat] = "Requested"
    /\ LET r == AnalysisOf(cat, o)
       IN /\ reqState' = [reqState EXCEPT ![cat] = r.state]
          /\ resp' = [resp EXCEPT ![cat] = o]
          /\ IF r.threw
             THEN pc' = "catch" /\ partial' = partial /\ error' = cat
             ELSE /\ pc' = AfterRequest(cat)
                  /\ partial' = [partial EXCEPT ![cat] = r.value]
                  /\ error' = error
    /\ UNCHANGED <<impl, apiKey, browser, issued, status, pageVars, analysis, response,
                   idleVars>>

\* analyze: return { mainPage: { ..., analysis: { visual, assets, content } } }
ReturnResult ==
    /\ impl = "server"
    /\ pc = "return"
    /\ analysis' = [visual |-> partial["visual"], assets |-> partial["assets"],
                    content |-> partial["content"]]
    /\ status' = "returning"
    /\ pc' = "finally"
    /\ UNCHANGED <<impl, apiKey, browser, reqState, resp, partial, issued,
                   pageVars, response, error,
                   idleVars>>

\* analyze: catch (error) { throw new Error(...) }
Catch ==
    /\ impl = "server"
    /\ pc = "catch"
    /\ status' = "throwing"
    /\ pc' = "finally"
    /\ UNCHANGED <<impl, apiKey, browser, reqState, resp, partial, issued,
                   pageVars, analysis, response, error,
                   idleVars>>

\* analyze: finally { if (browser) await browser.close(); }
Finally ==
    /\ impl = "server"
    /\ pc = "finally"
    /\ browser' = IF browser = "open" THEN "closed" ELSE browser
    /\ status' = IF status = "returning" THEN "returned" ELSE "thrown"
    /\ pc' = "done"
    /\ UNCHANGED <<impl, apiKey, reqState, resp, partial, issued, pageVars,
                   analysis, response, error,
                   idleVars>>

\* analyzePageContent without a credential: generateDefaultAnalysis, no request.
DefaultWithoutKey ==
    /\ impl = "serverless"
    /\ pc = "analyzePageContent"
    /\ ~apiKey
    /\ analysis' = generateDefaultAnalysis(content, assets)
    /\ pc' = "close"
    /\ UNCHANGED <<impl, apiKey, browser, reqState, resp, partial, issued,
                   status, pageVars, response, error,
                   idleVars>>

\* analyzePageContent: await openai.chat.completions.create(...)
RequestCombined ==
    /\ impl = "serverless"
    /\ pc = "analyzePageContent"
    /\ apiKey
    /\ reqState["combined"] = "Idle"
    /\ reqState' = [reqState EXCEPT !["combined"] = "Requested"]
    /\ issued' = issued + 1
    /\ UNCHANGED <<impl, apiKey, pc, browser, resp, partial, status, pageVars,
                   analysis, response, error,
                   idleVars>>

SettleCombined(o) ==
    /\ impl = "serverless"
    /\ pc = "analyzePageContent"
    /\ reqState["combined"] = "Requested"
    /\ LET r == analyzePageContent(o, content, assets)
       IN /\ reqState' = [reqState EXCEPT !["combined"] = r.state]
          /\ analysis' = r.value
    /\ resp' = [resp EXCEPT !["combined"] = [kind |-> o.kind, text |-> <<>>]]
    /\ pc' = "close"
    /\ UNCHANGED <<impl, apiKey, browser, partial, issued, status, pageVars, response, error,
                   idleVars>>

\* analyzeWebsite: await browser.close(); return fullAnalysis
CloseAndReturn ==
    /\ impl = "serverless"
    /\ pc = "close"
    /\ browser' = "closed"
    /\ status' = "returned"
    /\ pc' = "done"
    /\ UNCHANGED <<impl, apiKey, reqState, resp, partial, issued, pageVars,
                   analysis, response, error,
                   idleVars>>

\* analyzeWebsite: catch (error) { throw error; } with the close forgotten.
CatchClose_noClose ==
    /\ impl = "serverless"
    /\ pc = "catch"
    /\ browser' = browser
    /\ status' = "thrown"
    /\ pc' = "done"
    /\ UNCHANGED <<impl, apiKey, reqState, resp, partial, issued, pageVars,
                   analysis, response, error,
                   idleVars>>

\* analyzeWebsite: catch (error) { await browser.close(); throw error; }
CatchClose ==
    /\ impl = "serverless"
    /\ pc = "catch"
    /\ browser' = "closed"
    /\ status' = "thrown"
    /\ pc' = "done"
    /\ UNCHANGED <<impl, apiKey, reqState, resp, partial, issued, pageVars,
                   analysis, response, error,
                   idleVars>>

NextPipeline ==
    \/ \E ok \in BOOLEAN : Launch(ok)
    \/ \E ok \in BOOLEAN : PageStep(ok)
    \/ \E result \in {"ok", "httpError", "timeout"} : Goto(result)
    \/ \E cat \in Categories : RequestAI(cat)
    \/ \E cat \in Categories : \E o \in PipelineOutcomes(cat, apiKey) : SettleAI(cat, o)
    \/ ReturnResult
    \/ Catch
    \/ Finally
    \/ DefaultWithoutKey
    \/ RequestCombined
    \/ \E o \in CombinedOutcomes : SettleCombined(o)
    \/ CloseAndReturn
    \/ CatchClose

SpecPipeline == InitPipeline /\ [][NextPipeline]_vars

----------------------------------------------------------------------------
(* Claims about the analysis request (SpecPipeline) *)

\* C1: in analyze, a failed assets request never makes analyze throw, and
\* the visual and content results of the returned analysis are what their
\* own responses parse to, whatever the assets request did: the same as
\* when the assets request succeeds.
C1_AssetsFailureLocal ==
    impl = "server" =>
        /\ reqState["assets"] = "Failed"
              => (pc # "catch" /\ status \notin {"throwing", "thrown"})
        /\ status = "returned" =>
              /\ analysis["visual"] = AnalyzeWithAI("visual", resp["visual"]).value
              /\ analysis["content"] = AnalyzeWithAI("content", resp["content"]).value

C1_Witness ==
    /\ impl = "server"
    /\ status = "returned"
    /\ reqState["assets"] = "Failed"
    /\ resp["assets"].kind \in ThrowingKinds
    /\ reqState["visual"] = "Parsed"
    /\ reqState["content"] = "Parsed"
    /\ analysis["visual"]["exitPoints"] = <<<<"A">>>>
    /\ analysis["content"]["structureIssues"] = <<<<"A">>>>
    /\ analysis["assets"]["performanceIssues"] = <<ErrorEntry("assets")>>

\* C3 as stated: without a model credential an analysis request issues no
\* model request and returns the heuristic analyzer's output for the
\* extracted content and assets.
C3_Original ==
    (~apiKey /\ status = "returned") =>
        /\ issued = 0
        /\ analysis = generateDefaultAnalysis(content, assets)

\* C13: once a browser has been launched for an analysis request, it is
\* closed when the request completes, on the normal return and on an error
\* thrown by any call after the launch.
C13_BrowserClosed ==
    (status \in {"returned", "thrown"} /\ browser # "none") => browser = "closed"

C13_Witness ==
    /\ impl = "serverless"
    /\ status = "thrown"
    /\ error = "screenshot"
    /\ browser = "closed"

\* C14 as stated: when navigation resolves with a non-success HTTP status
\* or times out, the analysis request fails: it never returns a result.
C14_Original ==
    (response = "notOk" \/ error = "goto") => status # "returned"

\* C16: in analyze, the combined result is constructed and returned only
\* after each of the three category analyses is parsed or failed.
C16_AllSettledBeforeReturn ==
    (impl = "server" /\ (analysis # NoResult \/ status \in {"returning", "returned"}))
        => \A cat \in Categories : reqState[cat] \in {"Parsed", "Failed"}

C16_Witness ==
    /\ impl = "server"
    /\ status = "returning"
    /\ reqState["assets"] = "Parsed"
    /\ reqState["content"] = "Parsed"
    /\ reqState["visual"] = "Failed"
    /\ analysis["visual"]["exitPoints"] = <<ErrorEntry("visual")>>

\* The moves of one model request.
RequestMoves ==
    {<<"Idle", "Requested">>, <<"Requested", "Parsed">>, <<"Requested", "Failed">>}

\* C25: within one analysis every model request moves only along
\* Idle -> Requested -> Parsed or Idle -> Requested -> Failed; Parsed and
\* Failed are never left (no retry), and the requests issued are exactly the
\* requests that have left Idle, so none is issued twice.
C25_RequestStateMachine ==
    /\ [](issued = Cardinality({r \in Requests : reqState[r] # "Idle"}))
    /\ [][\A r \in Requests :
            reqState'[r] # reqState[r] => <<reqState[r], reqState'[r]>> \in RequestMoves]_vars

C25_Witness ==
    /\ impl = "server"
    /\ pc = "done"
    /\ reqState["assets"] = "Failed"
    /\ reqState["content"] = "Parsed"
    /\ reqState["visual"] = "Failed"
    /\ issued = 3

----------------------------------------------------------------------------
(* The auto-scroll sweep (autoScroll) and the extraction that follows it   *)

\* const distance = 100: the pixels of one scroll step.
distance == 100

\* page.setViewport heights: analyzeWebsite 800, analyze 1080.
ViewportHeights == {800, 1080}

\* How often an infinite-scroll page appends content before it runs out.
MaxGrown == 3

Min(a, b) == IF a < b THEN a ELSE b
Max(a, b) == IF a > b THEN a ELSE b

\* document.body.scrollHeight when the sweep starts, in pixels.
SampleHeights == {0, 50, 100, 250, 900, 1300, 2000}

\* Pixels a page appends after a scroll event: 0 for a static page.
Growths == {0, 50, 100, 200}

\* Elements by their box in document coordinates.
ElementTops == {0, 400, 1200}
SampleElements ==
    {<<>>} \cup {<<[left |-> 0, top |-> t, width |-> 200, height |-> 50]>> :
                    t \in ElementTops}

\* Every element lies inside the document.
Fits(p) == \A i \in 1..Len(p.elems) : p.elems[i].top + p.elems[i].height <= p.scrollHeight

ScrollPages ==
    {p \in [scrollHeight : SampleHeights, innerHeight : ViewportHeights,
            scrollY : {0}, growth : Growths, grown : {0}, scrolled : {FALSE},
            elems : SampleElements] : Fits(p)}

\* The largest scroll offset the document allows.
MaxScroll(p) == Max(0, p.scrollHeight - p.innerHeight)

\* window.scrollBy(0, dy): clamped to the document; a scroll event fires
\* when the offset changed.
scrollBy(p, dy) ==
    LET y == Min(p.scrollY + dy, MaxScroll(p))
    IN [p EXCEPT !.scrollY = y, !.scrolled = (p.scrolled \/ y # p.scrollY)]

\* el.getBoundingClientRect(): the box relative to the viewport.
getBoundingClientRect(p, el) ==
    [x |-> el.left, y |-> el.top - p.scrollY, width |-> el.width, height |-> el.height]

\* await autoScroll(page) has installed the interval timer; startHeight
\* remembers the scroll height of that moment (the code keeps no such value).
InitScroll ==
    /\ page \in ScrollPages
    /\ sweep = [state |-> "running", totalHeight |-> 0, ticks |-> 0,
                startHeight |-> page.scrollHeight]
    /\ boxes = <<>>
    /\ content = EmptyPageContent
    /\ assets = EmptyAssets
    /\ analysis = NoResult
    /\ category = "visual"
    /\ outcome = [kind |-> "nullContent", text |-> <<>>]
    /\ parsed = NoResult
    /\ rstate = "Idle"
    /\ ResolverIdle
    /\ PipelineIdle
    /\ EndpointIdle
    /\ UiIdle

\* One run of the setInterval callback.
Tick ==
    /\ sweep.state = "running"
    /\ LET scrollHeight == page.scrollHeight
           totalHeight == sweep.totalHeight + distance
       IN /\ page' = scrollBy(page, distance)
          /\ sweep' = [sweep EXCEPT
                          !.totalHeight = totalHeight,
                          !.ticks = @ + 1,
                          !.state = IF totalHeight >= scrollHeight
                                    THEN "done" ELSE "running"]
    /\ UNCHANGED <<boxes, requestVars, pageVars, analysis, resolverVars, pipelineVars,
                   endpointVars, uiVars>>

\* The page's own scroll listener appends content (infinite scroll).
Grow ==
    /\ page.scrolled
    /\ page.growth > 0
    /\ page.grown < MaxGrown
    /\ page' = [page EXCEPT !.scrollHeight = @ + page.growth,
                            !.grown = @ + 1,
                            !.scrolled = FALSE]
    /\ UNCHANGED <<sweep, boxes, requestVars, pageVars, analysis, resolverVars,
                   pipelineVars, endpointVars, uiVars>>

\* The extract functions: location = el.getBoundingClientRect() of each
\* element, evaluated in the page as the sweep left it.
Extract ==
    /\ sweep.state = "done"
    /\ boxes' = [i \in 1..Len(page.elems) |-> getBoundingClientRect(page, page.elems[i])]
    /\ sweep' = [sweep EXCEPT !.state = "extracted"]
    /\ UNCHANGED <<page, requestVars, pageVars, analysis, resolverVars, pipelineVars,
                   endpointVars, uiVars>>

NextScroll == Tick \/ Grow \/ Extract

SpecScroll == InitScroll /\ [][NextScroll]_vars

----------------------------------------------------------------------------
(* Claims about the auto-scroll sweep and the extractor (SpecScroll) *)

\* Callback runs that bring totalHeight to at least h.
TicksFor(h) == IF h <= distance THEN 1 ELSE (h + distance - 1) \div distance

\* C15 as stated: the stop bound of the sweep is the scroll height recorded
\* when the sweep starts, so the sweep never runs more callbacks than that
\* height needs, also on a page that grows each time it is scrolled.
C15_Original == sweep.ticks <= TicksFor(sweep.startHeight)

\* C19 as stated: every bounding box the extractor records has x, y, width
\* and height all >= 0, whatever scroll offset the sweep left the page at.
C19_Original ==
    \A i \in 1..Len(boxes) :
        boxes[i].x >= 0 /\ boxes[i].y >= 0 /\ boxes[i].width >= 0 /\ boxes[i].height >= 0

----------------------------------------------------------------------------
(* The HTTP endpoints: POST /analyze (server.js, api/analyze) and          *)
(* POST /api/generate-solution (server.js, api/generate-solution)          *)

JsNull == [type |-> "null", chars |-> <<>>, num |-> 0]
JsObject == [type |-> "object", chars |-> <<>>, num |-> 0]
Str(cs) == [type |-> "string", chars |-> cs, num |-> 0]
Num(n) == [type |-> "number", chars |-> <<>>, num |-> n]

\* !v is false
Truthy(v) ==
    CASE v.type = "string" -> v.chars # <<>>
      [] v.type = "number" -> v.num # 0
      [] v.type = "object" -> TRUE
      [] OTHER -> FALSE

\* s.startsWith(prefix)
StartsWith(s, prefix) ==
    Len(s) >= Len(prefix) /\ SubSeq(s, 1, Len(prefix)) = prefix

HttpPrefix == <<"h", "t", "t", "p", ":", "/", "/">>
HttpsPrefix == <<"h", "t", "t", "p", "s", ":", "/", "/">>

\* '', 'http://x', 'https://x', 'http://', 'ftp://x', 'http:/x', 'HTTP://x',
\* ' http://x', 'x'
SampleUrls ==
    { <<>>, HttpPrefix \o <<"x">>, HttpsPrefix \o <<"x">>, HttpPrefix,
      <<"f", "t", "p", ":", "/", "/", "x">>, <<"h", "t", "t", "p", ":", "/", "x">>,
      <<"H", "T", "T", "P", ":", "/", "/", "x">>, <<SP>> \o HttpPrefix \o <<"x">>,
      <<"x">> }

\* What a JSON body can hold under a key, or nothing (undefined).
BodyValues(strings) ==
    {JsUndefined, JsNull, JsObject, Num(0), Num(123)} \cup {Str(cs) : cs \in strings}

SampleIssues == { <<>>, <<"x">>, <<"c", "o", "n", "t", "r", "a", "s", "t">> }

AnalyzeHandlers == {"server.js", "part_000"}
SolutionHandlers == {"server.js", "part_001", "part_002"}

EndpointRequests ==
    {[endpoint |-> "analyze", handler |-> h, value |-> v] :
        h \in AnalyzeHandlers, v \in BodyValues(SampleUrls)}
    \cup {[endpoint |-> "solution", handler |-> h, value |-> v] :
        h \in SolutionHandlers, v \in BodyValues(SampleIssues)}

\* What the chat-completion fetch of the solution endpoint comes to.
SolutionOutcomes == {"networkError", "badStatus", "noChoices", "nonStringContent", "text"}

Reply(code, field, source) == [status |-> code, field |-> field, source |-> source]

\* The url test of both /analyze handlers: the reply it ends the request
\* with, or NoReply when the url passes.  url.startsWith is undefined on a
\* value that is not a string: the TypeError lands in the catch block.
validate(url) ==
    CASE ~Truthy(url) -> Reply(400, "error", "URL is required")
      [] url.type # "string" -> Reply(500, "error", "TypeError")
      [] ~StartsWith(url.chars, HttpPrefix) /\ ~StartsWith(url.chars, HttpsPrefix) ->
           Reply(400, "error", "Invalid URL format")
      [] OTHER -> NoReply

\* issue.toLowerCase() of categorizeIssue and generateFallbackSolution
\* throws a TypeError unless issue is a string.
LowerCaseThrows(issue) == issue.type # "string"

\* A handler has received a POST request.
InitEndpoints ==
    /\ request \in EndpointRequests
    /\ reply = NoReply
    /\ hstate = "received"
    /\ calls = 0
    /\ apiKey \in BOOLEAN
    /\ impl = "server"
    /\ pc = "idle"
    /\ browser = "none"
    /\ reqState = [r \in Requests |-> "Idle"]
    /\ resp = [r \in Requests |-> NoOutcome]
    /\ partial = [r \in Categories |-> NoResult]
    /\ issued = 0
    /\ status = "running"
    /\ response = "none"
    /\ error = "none"
    /\ content = EmptyPageContent
    /\ assets = EmptyAssets
    /\ analysis = NoResult
    /\ category = "visual"
    /\ outcome = [kind |-> "nullContent", text |-> <<>>]
    /\ parsed = NoResult
    /\ rstate = "Idle"
    /\ ResolverIdle
    /\ ScrollIdle
    /\ UiIdle

otherThanEndpoints ==
    <<requestVars, pageVars, analysis, resolverVars, pipelineVars, scrollVars, uiVars>>

\* POST /analyze up to the await of the pipeline.
HandleAnalyze ==
    /\ hstate = "received"
    /\ request.endpoint = "analyze"
    /\ LET r == validate(request.value)
       IN IF r # NoReply
          THEN reply' = r /\ hstate' = "answered" /\ calls' = calls
          ELSE reply' = reply /\ hstate' = "analyzing" /\ calls' = calls + 1
    /\ UNCHANGED <<request, otherThanEndpoints>>

\* The pipeline returns (200 with the analysis) or throws (500).
AnalyzeSettles(ok) ==
    /\ hstate = "analyzing"
    /\ reply' = IF ok THEN Reply(200, "analysis", "pipeline")
                ELSE Reply(500, "error", "pipeline")
    /\ hstate' = "answered"
    /\ UNCHANGED <<request, calls, otherThanEndpoints>>

\* The catch block of a solution handler: the reply it sends, or NoReply
\* when the block itself throws.  server.js and part_002 answer with
\* generateFallbackSolution(req.body.issue); part_001 builds its text from
\* `issue`, a const of the try block that is out of scope in the catch
\* block (ReferenceError).
CatchSolution(handler, issue) ==
    IF handler = "part_001" THEN NoReply
    ELSE IF LowerCaseThrows(issue) THEN NoReply
    ELSE Reply(200, "solution", "fallback")

\* The handler ends: with the reply r, or by rejecting when r is NoReply.
Ends(r) ==
    /\ reply' = r
    /\ hstate' = IF r = NoReply THEN "rejected" ELSE "answered"

\* POST /api/generate-solution up to the await of fetch.
HandleSolution ==
    /\ hstate = "received"
    /\ request.endpoint = "solution"
    /\ LET issue == request.value
           h == request.handler
       IN CASE ~Truthy(issue) -> Ends(Reply(400, "error", "Issue is required"))
            [] Truthy(issue) /\ ~apiKey /\ h = "part_001" ->
                 Ends(Reply(200, "solution", "keyMissing"))
            [] Truthy(issue) /\ ~apiKey /\ h # "part_001" ->
                 IF LowerCaseThrows(issue)
                 THEN Ends(CatchSolution(h, issue))
                 ELSE Ends(Reply(200, "solution", "fallback"))
            [] Truthy(issue) /\ apiKey ->
                 IF LowerCaseThrows(issue)
                 THEN Ends(CatchSolution(h, issue))
                 ELSE reply' = reply /\ hstate' = "fetching"
    /\ UNCHANGED <<request, calls, otherThanEndpoints>>

\* The fetch settles: data.choices[0].message.content.trim() is the
\* solution, or an error reaches the catch block.
SolutionSettles(o) ==
    /\ hstate = "fetching"
    /\ IF o = "text"
       THEN Ends(Reply(200, "solution", "ai"))
       ELSE Ends(CatchSolution(request.handler, request.value))
    /\ UNCHANGED <<request, calls, otherThanEndpoints>>

NextEndpoints ==
    \/ HandleAnalyze
    \/ \E ok \in BOOLEAN : AnalyzeSettles(ok)
    \/ HandleSolution
    \/ \E o \in SolutionOutcomes : SolutionSettles(o)

SpecEndpoints == InitEndpoints /\ [][NextEndpoints]_vars

----------------------------------------------------------------------------
(* Claims about the endpoints (SpecEndpoints) *)

\* A non-empty string starting with "http://" or "https://".
ValidUrl(v) ==
    /\ v.type = "string"
    /\ v.chars # <<>>
    /\ \/ (Len(v.chars) >= 7 /\ \A k \in 1..7 : v.chars[k] = HttpPrefix[k])
       \/ (Len(v.chars) >= 8 /\ \A k \in 1..8 : v.chars[k] = HttpsPrefix[k])

\* C17 as stated: a POST /analyze request whose url is not a non-empty
\* string starting with "http://" or "https://" (missing, empty, other
\* scheme, or not a string) is answered with status 400 and the analysis
\* pipeline is never invoked for it.
C17_Original ==
    (request.endpoint = "analyze" /\ ~ValidUrl(request.value) /\ hstate # "received")
        => (hstate = "answered" /\ reply.status = 400 /\ calls = 0)

\* C18 as stated: a POST /api/generate-solution request with a non-empty
\* issue is answered with status 200 and a solution, whatever the model
\* call comes to; the handler never ends without an answer.
C18_Original ==
    (/\ request.endpoint = "solution"
     /\ request.value.type = "string"
     /\ request.value.chars # <<>>
     /\ hstate \in {"answered", "rejected"})
        => (hstate = "answered" /\ reply.status = 200 /\ reply.field = "solution")

\* C26 as stated: when no model credential is configured, the solution
\* returned for an issue is the static fallback solution selected from the
\* issue's keywords, never an error message presented as the solution.
C26_Original ==
    (/\ request.endpoint = "solution"
     /\ ~apiKey
     /\ request.value.type = "string"
     /\ request.value.chars # <<>>
     /\ hstate = "answered"
     /\ reply.field = "solution")
        => reply.source = "fallback"

----------------------------------------------------------------------------
(* The Locate buttons of the UI (App, part_005)                            *)

\* The issue lists the UI renders with a Locate button: the offset the
\* rendering code adds to the entry's position in its list and the issue
\* type it passes.
UiLists ==
    { [list |-> "visual.exitPoints", offset |-> 0, issueType |-> "exitPoint"],
      [list |-> "visual.designIssues", offset |-> 100, issueType |-> "designIssue"],
      [list |-> "assets.performanceIssues", offset |-> 200, issueType |-> "performance"],
      [list |-> "assets.accessibilityIssues", offset |-> 400,
       issueType |-> "accessibility"],
      [list |-> "assets.seoIssues", offset |-> 600, issueType |-> "seo"],
      [list |-> "content.structureIssues", offset |-> 800, issueType |-> "content"],
      [list |-> "content.qualityIssues", offset |-> 1000, issueType |-> "content"],
      [list |-> "content.uxIssues", offset |-> 1200, issueType |-> "content"],
      [list |-> "content.seoIssues", offset |-> 1400, issueType |-> "seo"],
      [list |-> "seoIssues", offset |-> 1600, issueType |-> "seo"] }

\* The index argument of handleLocateIssue for entry i of a list.
IndexPassed(entry, i) == i + entry.offset

\* Analysed pages shown in the UI: images, headings, paragraphs and links.
UiPages ==
    {p \in Pages : p.forms = <<>> /\ p.navigation = <<>> /\ p.videos = <<>>
                     /\ Len(p.headings) <= 1}

UiIssues == {{}, {"image"}}

\* setActiveHighlight(index)
Highlight(index) == [kind |-> "index", idx |-> index]

\* The fallback location handleElementClick computes in the preview.
FallbackLocation == [kind |-> "fallback", idx |-> 0]

InitLocateUI ==
    /\ pageAnalysis \in UiPages
    /\ locate = NoLocate
    /\ location = Undefined
    /\ pressed = NoPress
    /\ ui = UiInit
    /\ layout = NoLayout
    /\ popup = PopupInit
    /\ content = EmptyPageContent
    /\ assets = EmptyAssets
    /\ analysis = NoResult
    /\ category = "visual"
    /\ outcome = [kind |-> "nullContent", text |-> <<>>]
    /\ parsed = NoResult
    /\ rstate = "Idle"
    /\ PipelineIdle
    /\ ScrollIdle
    /\ EndpointIdle

otherThanUi ==
    <<requestVars, pageVars, analysis, pageAnalysis, pipelineVars, scrollVars,
      endpointVars, layout, popup>>

\* handleElementClick(location) of the click numbered click, as a change of
\* the App state u.  Without a location the fallback highlight is shown and
\* the function returns before it arms the 3 s timer.  (The 50 ms timer only
\* repeats the scroll.)
handleElementClick(u, loc, click) ==
    IF loc = Undefined
    THEN [u EXCEPT !.autoScrolling = FALSE,
                   !.highlightLocation = FallbackLocation,
                   !.fallbackHighlight = TRUE,
                   !.setBy = click]
    ELSE [u EXCEPT !.autoScrolling = FALSE,
                   !.highlightLocation = loc,
                   !.fallbackHighlight = FALSE,
                   !.removeTimers = @ \cup {click},
                   !.setBy = click]

\* The Locate button of entry i of a list is pressed (it is disabled while
\* a search is shown): handleLocateIssue up to its setTimeout.
handleLocateIssue(entry, i, issue) ==
    /\ ~ui.isSearchingElement
    /\ LET index == IndexPassed(entry, i)
           loc == findElementLocation(issue, pageAnalysis, index, entry.issueType)
       IN /\ locate' = [issue |-> issue, index |-> index, issueType |-> entry.issueType]
          /\ location' = loc
          /\ ui' = [ui EXCEPT !.autoScrolling = FALSE,
                              !.isSearchingElement = TRUE,
                              !.clicks = @ + 1,
                              !.locateTimer = [armed |-> TRUE, index |-> index,
                                               location |-> loc, click |-> ui.clicks + 1,
                                               row |-> [list |-> entry.list,
                                                        ordinal |-> i]]]
    /\ pressed' = [list |-> entry.list, ordinal |-> i]
    /\ UNCHANGED otherThanUi

\* The 800 ms timer of handleLocateIssue fires: setActiveHighlight(index)
\* and handleElementClick(location).
LocateTimeout ==
    /\ ui.locateTimer.armed
    /\ LET t == ui.locateTimer
       IN ui' = handleElementClick([ui EXCEPT !.isSearchingElement = FALSE,
                                              !.activeHighlight = Highlight(t.index),
                                              !.clicked = t.row,
                                              !.locateTimer = NoTimer],
                                   t.location, t.click)
    /\ UNCHANGED <<pressed, locate, location, otherThanUi>>

\* The 3 s timer armed by click t fires.
RemoveHighlight(t) ==
    /\ t \in ui.removeTimers
    /\ ui' = [ui EXCEPT !.highlightLocation = Null,
                        !.activeHighlight = Null,
                        !.fallbackHighlight = FALSE,
                        !.removeTimers = @ \ {t},
                        !.setBy = 0,
                        !.clicked = NoPress]
    /\ UNCHANGED <<pressed, locate, location, otherThanUi>>

\* One press of a Locate button and the timers it starts.
NextLocateUI ==
    \/ \E entry \in UiLists, i \in 0..MaxElems, issue \in UiIssues :
           pressed = NoPress /\ handleLocateIssue(entry, i, issue)
    \/ LocateTimeout
    \/ \E t \in ui.removeTimers : RemoveHighlight(t)

SpecLocateUI == InitLocateUI /\ [][NextLocateUI]_vars

----------------------------------------------------------------------------
(* Claims about the Locate buttons (SpecLocateUI) *)

\* Element min(i, last) of a collection of n elements.
Clamped(kind, i, n) == Box(kind, IF i < n THEN i ELSE n - 1)

\* C20 as stated: pressing Locate on entry i of a list hands index i to
\* findElementLocation, so design issue i resolves to the image at
\* min(i, last image) and content issue i to the paragraph at
\* min(i, last paragraph).
C20_Original ==
    pressed # NoPress =>
        /\ locate.index = pressed.ordinal
        /\ (pressed.list = "visual.designIssues" /\ pageAnalysis.images # <<>>)
              => location = Clamped("image", pressed.ordinal, Len(pageAnalysis.images))
        /\ (locate.issueType = "content" /\ pageAnalysis.paragraphs # <<>>)
              => location = Clamped("paragraph", pressed.ordinal,
                                    Len(pageAnalysis.paragraphs))

----------------------------------------------------------------------------
(* The highlight of the preview: Locate buttons, issue rows and issue dots  *)
(* (App, part_005)                                                          *)

MaxClicks == 2

\* Where an element can lie on the page: y and width of its location.
LinkRects == {[y |-> 0 - 10, width |-> 50], [y |-> 300, width |-> 50]}
ImageRects == {[y |-> 200, width |-> 100], [y |-> 0, width |-> 100]}
HeadingRects == {[y |-> 50, width |-> 100]}
ParagraphRects == {[y |-> 500, width |-> 100]}

Layouts ==
    {[link |-> l, image |-> i, heading |-> h, paragraph |-> q] :
        l \in SeqsUpTo(LinkRects, 1), i \in SeqsUpTo(ImageRects, 1),
        h \in SeqsUpTo(HeadingRects, 1), q \in SeqsUpTo(ParagraphRects, 1)}

\* The element lists of a page with the locations of a layout.
PageOf(lay) ==
    [EmptyPage EXCEPT !.links = Elements("link", Len(lay["link"])),
                      !.images = Elements("image", Len(lay["image"])),
                      !.headings = Elements("heading", Len(lay["heading"])),
                      !.paragraphs = Elements("paragraph", Len(lay["paragraph"]))]

\* The visual analyses shown: up to one exit point and one design issue.
ShownAnalyses ==
    {[EmptyAnalysis EXCEPT !["visual"]["exitPoints"] = e,
                           !["visual"]["designIssues"] = d] :
        e \in SeqsUpTo({<<"A">>}, 1), d \in SeqsUpTo({<<"B">>}, 1)}

\* location && location.y > 0 && location.width > 0
ValidRect(r) == r.y > 0 /\ r.width > 0

\* The position of the first element of rects with a valid location, 0 if
\* there is none.
FirstValid(rects) ==
    IF \E k \in 1..Len(rects) : ValidRect(rects[k])
    THEN CHOOSE k \in 1..Len(rects) :
            ValidRect(rects[k]) /\ \A j \in 1..(k - 1) : ~ValidRect(rects[j])
    ELSE 0

\* renderIssueDots: the location of the dot of design issue number index.
designDotLocation(lay, index) ==
    LET im == lay["image"]
        hd == lay["heading"]
        pr == lay["paragraph"]
    IN IF FirstValid(im) > 0
       THEN [location |-> Box("image", FirstValid(im) - 1), y |-> im[FirstValid(im)].y]
       ELSE IF Len(im) > 0
       THEN [location |-> [kind |-> "imageMoved", idx |-> 0], y |-> Max(100, im[1].y)]
       ELSE IF FirstValid(hd) > 0
       THEN [location |-> Box("heading", FirstValid(hd) - 1), y |-> hd[FirstValid(hd)].y]
       ELSE IF FirstValid(pr) > 0
       THEN [location |-> Box("paragraph", FirstValid(pr) - 1),
             y |-> pr[FirstValid(pr)].y]
       ELSE [location |-> [kind |-> "dotFallback", idx |-> index],
             y |-> 200 + (index * 100)]

\* renderIssueDots: the dots pushed, exit points first, then design issues.
exitDots(an, lay) ==
    LET n == Len(an["visual"]["exitPoints"])
        all == [k \in 1..Len(lay["link"]) |->
                   [type |-> "exit", issue |-> k - 1, location |-> Box("link", k - 1),
                    y |-> lay["link"][k].y]]
        Pushed(d) == d.issue < n /\ d.y >= 0
    IN SelectSeq(all, Pushed)

designDots(an, lay) ==
    [k \in 1..Len(an["visual"]["designIssues"]) |->
        [type |-> "design", issue |-> k - 1,
         location |-> designDotLocation(lay, k - 1).location,
         y |-> designDotLocation(lay, k - 1).y]]

\* dots.sort((a, b) => a.location.y - b.location.y): a stable sort.
RECURSIVE SortByY(_)
SortByY(ds) ==
    IF ds = <<>> THEN <<>>
    ELSE LET front == SortByY(SubSeq(ds, 1, Len(ds) - 1))
             d == ds[Len(ds)]
             NotAfter(e) == e.y <= d.y
             After(e) == e.y > d.y
         IN SelectSeq(front, NotAfter) \o <<d>> \o SelectSeq(front, After)

renderIssueDots(an, lay) == SortByY(exitDots(an, lay) \o designDots(an, lay))

\* The list a dot's issue is rendered in.
ListOfDot(d) ==
    IF d.type = "exit" THEN "visual.exitPoints" ELSE "visual.designIssues"

\* The rows of the lists of the visual analysis: the location their onClick
\* hands to handleElementClick.
RowEntries == {e \in UiLists : e.list \in {"visual.exitPoints", "visual.designIssues"}}

RowCount(e) ==
    IF e.list = "visual.exitPoints"
    THEN Len(analysis["visual"]["exitPoints"])
    ELSE Len(analysis["visual"]["designIssues"])

RowLocation(e, i) ==
    IF e.list = "visual.exitPoints"
    THEN LocationAt(pageAnalysis.links, i)
    ELSE LocationAt(pageAnalysis.images, i)

InitHighlight ==
    /\ layout \in Layouts
    /\ pageAnalysis = PageOf(layout)
    /\ analysis \in ShownAnalyses
    /\ locate = NoLocate
    /\ location = Undefined
    /\ pressed = NoPress
    /\ ui = UiInit
    /\ popup = PopupInit
    /\ content = EmptyPageContent
    /\ assets = EmptyAssets
    /\ category = "visual"
    /\ outcome = [kind |-> "nullContent", text |-> <<>>]
    /\ parsed = NoResult
    /\ rstate = "Idle"
    /\ PipelineIdle
    /\ ScrollIdle
    /\ EndpointIdle

\* onClick of the row of entry i of a list: handleElementClick of the
\* location of link i or image i.
RowClick(e, i) ==
    /\ ui' = handleElementClick([ui EXCEPT !.clicks = @ + 1], RowLocation(e, i),
                                ui.clicks + 1)
    /\ UNCHANGED <<pressed, locate, location, otherThanUi>>

\* onClick of the dot at position index of the sorted dots.
DotClick(index) ==
    /\ index < Len(renderIssueDots(analysis, layout))
    /\ LET dot == renderIssueDots(analysis, layout)[index + 1]
       IN ui' = [ui EXCEPT
                    !.highlightLocation = dot.location,
                    !.fallbackHighlight = FALSE,
                    !.activeHighlight =
                        Highlight(IF dot.type = "exit" THEN index ELSE index + 100),
                    !.clicked = [list |-> ListOfDot(dot), ordinal |-> dot.issue],
                    !.clicks = @ + 1,
                    !.setBy = ui.clicks + 1,
                    !.removeTimers = @ \cup {ui.clicks + 1}]
    /\ UNCHANGED <<pressed, locate, location, otherThanUi>>

NextHighlight ==
    \/ \E e \in RowEntries : \E i \in 0..(RowCount(e) - 1) :
           ui.clicks < MaxClicks /\ handleLocateIssue(e, i, {})
    \/ \E e \in RowEntries : \E i \in 0..(RowCount(e) - 1) :
           ui.clicks < MaxClicks /\ RowClick(e, i)
    \/ \E index \in 0..(Len(renderIssueDots(analysis, layout)) - 1) :
           ui.clicks < MaxClicks /\ DotClick(index)
    \/ LocateTimeout
    \/ \E t \in ui.removeTimers : RemoveHighlight(t)

SpecHighlight == InitHighlight /\ [][NextHighlight]_vars

----------------------------------------------------------------------------
(* Claims about the highlight (SpecHighlight) *)

\* The rows rendered for the visual analysis, each with the key its
\* className compares activeHighlight with.
RenderedRows ==
    UNION {{[list |-> e.list, ordinal |-> i, key |-> i + e.offset] :
               i \in 0..(RowCount(e) - 1)} : e \in RowEntries}

ActiveRows ==
    {[list |-> r.list, ordinal |-> r.ordinal] :
        r \in {q \in RenderedRows : ui.activeHighlight = Highlight(q.key)}}

\* C27 as stated: after a click that sets activeHighlight (a Locate button
\* or an issue dot), exactly one issue row is rendered as active and it is
\* the row of the issue that was clicked.
C27_Original ==
    ui.activeHighlight # Null => ActiveRows = {ui.clicked}

\* C28 as stated: a highlight stays until the 3 s timer started by the
\* click that set it fires; a timer started by an earlier click never
\* clears the highlight set by a later one.  Stated for the highlights
\* whose own timer is pending: the step that clears one fires that timer.
C28_Original ==
    [][(/\ ui.highlightLocation # Null
        /\ ui.setBy \in ui.removeTimers
        /\ ui'.highlightLocation = Null)
          => ui.setBy \notin ui'.removeTimers]_vars

\* C29 as stated: every highlight is eventually removed with no further
\* user action.  Only the timers act without the user, so whenever a
\* highlight is shown a timer that removes it is pending.
C29_Original ==
    ui.highlightLocation # Null => (ui.removeTimers # {} \/ ui.locateTimer.armed)

----------------------------------------------------------------------------
(* The How-to popup (App, part_005; HowToPopup.tsx; generateAISolution)     *)

MaxRequests == 3

\* The issues of the rows a How-to button is clicked on.
PopupIssues == {"a", "b"}

\* A solution shown: the issue it was generated for and where it came from
\* (the model, generateSolution of lib/solutions, or the key-missing text
\* generateAISolution returns).
Solution(issue, source) == [issue |-> issue, source |-> source]

InitHowTo ==
    /\ popup = PopupInit
    /\ pressed = NoPress
    /\ ui = UiInit
    /\ layout = NoLayout
    /\ apiKey \in BOOLEAN
    /\ impl = "server"
    /\ pc = "idle"
    /\ browser = "none"
    /\ reqState = [r \in Requests |-> "Idle"]
    /\ resp = [r \in Requests |-> NoOutcome]
    /\ partial = [r \in Categories |-> NoResult]
    /\ issued = 0
    /\ status = "running"
    /\ response = "none"
    /\ error = "none"
    /\ content = EmptyPageContent
    /\ assets = EmptyAssets
    /\ analysis = NoResult
    /\ category = "visual"
    /\ outcome = [kind |-> "nullContent", text |-> <<>>]
    /\ parsed = NoResult
    /\ rstate = "Idle"
    /\ ResolverIdle
    /\ ScrollIdle
    /\ EndpointIdle

otherThanPopup ==
    <<requestVars, pageVars, analysis, resolverVars, pipelineVars, scrollVars,
      endpointVars, pressed, ui, layout>>

\* The How-to button of a row is clicked (the open popup covers the rows):
\* handleHowToClick up to the await of generateAISolution.  Without a key
\* generateAISolution returns its message without a request, and the
\* handler runs to its end.
handleHowToClick(issue) ==
    /\ ~popup.showHowToPopup
    /\ popup' = IF apiKey
                THEN [popup EXCEPT
                        !.currentIssue = issue,
                        !.currentSolution = NoSolution,
                        !.isLoadingSolution = TRUE,
                        !.showHowToPopup = TRUE,
                        !.retryToast = "",
                        !.requests = @ + 1,
                        !.pending = @ \cup {[id |-> popup.requests + 1, issue |-> issue,
                                             kind |-> "howTo"]}]
                ELSE [popup EXCEPT
                        !.currentIssue = issue,
                        !.currentSolution = Solution(issue, "keyMissing"),
                        !.isLoadingSolution = FALSE,
                        !.showHowToPopup = TRUE,
                        !.retryToast = "",
                        !.requests = @ + 1]
    /\ UNCHANGED otherThanPopup

\* onClose of the popup: the X button, the backdrop or the Escape key (the
\* "Got it" button alone is disabled while loading).
ClosePopup ==
    /\ popup.showHowToPopup
    /\ popup' = [popup EXCEPT !.showHowToPopup = FALSE]
    /\ UNCHANGED otherThanPopup

\* The Retry button of the error toast: handleRetryAISolution(issue) up to
\* the await of generateAISolution.
handleRetryAISolution(issue) ==
    /\ popup.retryToast = issue
    /\ popup' = [popup EXCEPT
                    !.isLoadingSolution = TRUE,
                    !.retryToast = "",
                    !.requests = @ + 1,
                    !.pending = @ \cup {[id |-> popup.requests + 1, issue |-> issue,
                                         kind |-> "retry"]}]
    /\ UNCHANGED otherThanPopup

\* The error toast disappears after its 5 s.
ToastExpires ==
    /\ popup.retryToast # ""
    /\ popup' = [popup EXCEPT !.retryToast = ""]
    /\ UNCHANGED otherThanPopup

\* A pending generateAISolution settles and the handler that awaited it
\* runs to its end: try (setCurrentSolution), catch (the static solution
\* and the Retry toast in handleHowToClick, a toast only in the retry),
\* finally (setIsLoadingSolution(false)).
SolutionArrives(r, ok) ==
    /\ r \in popup.pending
    /\ popup' = [popup EXCEPT
                    !.pending = @ \ {r},
                    !.isLoadingSolution = FALSE,
                    !.currentSolution =
                        IF ok THEN Solution(r.issue, "ai")
                        ELSE IF r.kind = "howTo" THEN Solution(r.issue, "fallback")
                        ELSE @,
                    !.retryToast =
                        IF r.kind = "howTo" THEN (IF ok THEN "" ELSE r.issue) ELSE @]
    /\ UNCHANGED otherThanPopup

NextHowTo ==
    \/ \E issue \in PopupIssues :
           popup.requests < MaxRequests /\ handleHowToClick(issue)
    \/ ClosePopup
    \/ \E issue \in PopupIssues :
           popup.requests < MaxRequests /\ handleRetryAISolution(issue)
    \/ ToastExpires
    \/ \E r \in popup.pending : \E ok \in BOOLEAN : SolutionArrives(r, ok)

SpecHowTo == InitHowTo /\ [][NextHowTo]_vars

----------------------------------------------------------------------------
(* Claims about the How-to popup (SpecHowTo) *)

\* C30 as stated: whenever isLoadingSolution is false and currentSolution
\* is non-empty, currentSolution is the solution generated for
\* currentIssue, and isLoadingSolution is false only when no solution
\* request is pending.
C30_Original ==
    /\ (~popup.isLoadingSolution /\ popup.currentSolution # NoSolution)
          => popup.currentSolution.issue = popup.currentIssue
    /\ ~popup.isLoadingSolution => popup.pending = {}

====
